---- MODULE Spec2Model ----
(***************************************************************************)
(* State-machine model of three OFRAK components:                          *)
(*   - comments.py : AddCommentModifier / DeleteCommentModifier and the    *)
(*                   DeleteCommentModifierConfig normalisation             *)
(*   - entropy.py  : DataSummaryAnalyzer.analyze (worker pool and retries) *)
(*                                                                         *)
(* Specifications:                                                         *)
(*   Spec        - a resource and the comment modifiers run on it          *)
(*   SpecConfig  - construction of DeleteCommentModifierConfig             *)
(*   SpecAnalyze - DataSummaryAnalyzer.analyze calls on one analyzer       *)
(***************************************************************************)
EXTENDS Integers, Sequences, FiniteSets, TLC

VARIABLES
    attrs,      \* the resource's CommentsAttributes slot: [present, comments]
    last,       \* history: the last modifier run, its arguments, outcome and pre-state
    run,        \* history: the current run of consecutive successful Adds under one key
    raw,        \* the value passed to DeleteCommentModifierConfig(comment_range=...)
    config,     \* DeleteCommentModifierConfig.comment_range after __post_init__
    cfgPc,      \* "new" before a config is constructed, "constructed" after
    apc,        \* position of the analyze coroutine
    depth,      \* the depth argument of the innermost analyze frame
    pool,       \* state of self.pool: "ok" or "broken"
    entropy,    \* state of the sample_entropy job of the current attempt
    magnitude,  \* state of the sample_magnitude job of the current attempt
    crashes,    \* history: BrokenProcessPool exceptions raised in this analysis
    replaced,   \* history: ProcessPoolExecutor() replacements made by this analysis
    submitted,  \* history: computations handed to run_in_executor in this analysis
    sfn,        \* the sampling function last called: "none", "sample_magnitude", "sample_entropy"
    sdata,      \* its input: the raw data, or the per-window entropy sequence
    sresult,    \* the bytes it returned
    ucall,      \* per unpack call: its position, subprocess, error and what it touched
    cwd,        \* the process-wide current directory (0: the one the process started in)
    tmp         \* per temporary directory: whether it exists and what it holds

commentVars == <<attrs, last, run>>
configVars  == <<raw, config, cfgPc>>
analyzeVars == <<apc, depth, pool, entropy, magnitude, crashes, replaced, submitted>>
sampleVars  == <<sfn, sdata, sresult>>
unpackVars  == <<ucall, cwd, tmp>>
vars == <<attrs, last, run, raw, config, cfgPc,
          apc, depth, pool, entropy, magnitude, crashes, replaced, submitted,
          sfn, sdata, sresult, ucall, cwd, tmp>>

(***************************************************************************)
(* Bounds of the model                                                     *)
(***************************************************************************)
\* len(await resource.get_data()) of the resource the modifiers run on
DataLen == 1
\* Add is not run once the resource holds this many comments
MaxComments == 2
\* longest tuple passed as comment_range
MaxTupleLen == 3
\* log2 of max_samples (the program's default is 2**20)
SamplesLog2 == 2
\* the sampled sequences are up to max_samples + ExtraLen long
ExtraLen == 5
\* unpack calls running in the same process
NumCalls == 2

(***************************************************************************)
(* Values                                                                  *)
(***************************************************************************)
\* Python's None
None == <<"None">>
\* ofrak_type.range.Range(start, end)
Range(s, e) == <<"Range", s, e>>
\* a Python str
Str(t) == <<"str", t>>

RangeStart(r) == r[2]
RangeEnd(r) == r[3]

Texts == {"a", "b"}
\* starts from below the data to past its end, ends from 0 to past its end
StartCoords == (0 - 1) .. (DataLen + 1)
EndCoords == 0 .. (DataLen + 1)
Ranges == {Range(s, e) : s \in StartCoords, e \in EndCoords}
OptRanges == Ranges \cup {None}
OptTexts == {Str(t) : t \in Texts} \cup {None}

\* an empty dict
EmptyMap == [k \in {} |-> <<>>]
\* the resource has no CommentsAttributes
NoAttributes == [present |-> FALSE, comments |-> EmptyMap]
\* CommentsAttributes(comments=comments)
CommentsAttributes(comments) == [present |-> TRUE, comments |-> comments]

(***************************************************************************)
(* comments.py: helpers for dict and list                                  *)
(***************************************************************************)
\* the number of comments held by a mapping
RECURSIVE TotalComments(_)
TotalComments(comments) ==
    IF DOMAIN comments = {} THEN 0
    ELSE LET k == CHOOSE x \in DOMAIN comments : TRUE
         IN Len(comments[k])
            + TotalComments([x \in DOMAIN comments \ {k} |-> comments[x]])

\* x in list
Contains(list, x) == \E i \in 1..Len(list) : list[i] = x

\* del comments[key], for a key that is present
DictDel(comments, key) == [k \in DOMAIN comments \ {key} |-> comments[k]]

ListRemove_All(list, x) == SelectSeq(list, LAMBDA y : y # x)

\* list.remove(x), for x in list: removes the first occurrence
ListRemove(list, x) ==
    LET i == CHOOSE n \in 1..Len(list) :
                 list[n] = x /\ \A m \in 1..(n - 1) : list[m] # x
    IN SubSeq(list, 1, i - 1) \o SubSeq(list, i + 1, Len(list))

\* resource.get_attributes(CommentsAttributes).comments, {} on NotFoundError
GetComments(a) == IF a.present THEN a.comments ELSE EmptyMap

(***************************************************************************)
(* comments.py: AddCommentModifier                                         *)
(***************************************************************************)
RangeInvalid_EndOnly(r) == RangeEnd(r) > DataLen

\* config_range.start < 0 or config_range.end > len(data)
RangeInvalid(r) == RangeStart(r) < 0 \/ RangeEnd(r) > DataLen

AddComment_FreshDict(comments, key, text) ==
    [k \in {key} |-> IF key \in DOMAIN comments
                     THEN Append(comments[key], text)
                     ELSE <<text>>]

AddComment_Prepend(comments, key, text) ==
    LET c1 == IF key \notin DOMAIN comments
              THEN [k \in DOMAIN comments \cup {key} |->
                        IF k = key THEN <<>> ELSE comments[k]]
              ELSE comments
    IN [c1 EXCEPT ![key] = <<text>> \o @]

\* if key not in comments: comments[key] = []; comments[key].append(text)
AddComment(comments, key, text) ==
    LET c1 == IF key \notin DOMAIN comments
              THEN [k \in DOMAIN comments \cup {key} |->
                        IF k = key THEN <<>> ELSE comments[k]]
              ELSE comments
    IN [c1 EXCEPT ![key] = Append(@, text)]

AddResult_WriteFirst(old, key, text) ==
    IF key # None /\ RangeInvalid(key)
    THEN [outcome |-> "ValueError",
          attrs |-> CommentsAttributes(AddComment(GetComments(old), key, text))]
    ELSE [outcome |-> "ok",
          attrs |-> CommentsAttributes(AddComment(GetComments(old), key, text))]

\* AddCommentModifier.modify: the outcome and the attribute slot afterwards
AddResult(old, key, text) ==
    IF key # None /\ RangeInvalid(key)
    THEN [outcome |-> "ValueError", attrs |-> old]
    ELSE [outcome |-> "ok",
          attrs |-> CommentsAttributes(AddComment(GetComments(old), key, text))]

(***************************************************************************)
(* comments.py: DeleteCommentModifierConfig                                *)
(***************************************************************************)
\* tuple[:2]
Slice2(t) == SubSeq(t, 1, IF Len(t) < 2 THEN Len(t) ELSE 2)

\* tuples of length n: an optional range, then optional texts
TuplesOfLen(n) ==
    IF n = 0 THEN {<<>>}
    ELSE {<<r>> \o rest : r \in OptRanges, rest \in [1..(n - 1) -> OptTexts]}

\* the values a caller passes as comment_range: a tuple, a bare Range, or None
RawInputs ==
    {<<"tuple", t>> : t \in UNION {TuplesOfLen(n) : n \in 0..MaxTupleLen}}
    \cup Ranges \cup {None}

\* DeleteCommentModifierConfig.__post_init__
PostInit(r) ==
    IF r[1] = "tuple" THEN Slice2(r[2] \o <<None>>)
    ELSE IF r[1] = "Range" THEN <<r, None>>
    ELSE <<None, None>>

\* every comment_range a constructed DeleteCommentModifierConfig can hold
DeleteConfigs == {PostInit(r) : r \in RawInputs}

(***************************************************************************)
(* comments.py: DeleteCommentModifier                                      *)
(***************************************************************************)
\* if len(config.comment_range) == 1: pad with None
PadConfig(cr) == IF Len(cr) = 1 THEN <<cr[1], None>> ELSE cr

CleanUp_Skip(comments, key) == comments

CleanUp_AtMostOne(comments, key) ==
    IF Len(comments[key]) <= 1 THEN DictDel(comments, key) ELSE comments

\* if len(comments[key]) == 0: del comments[key]
CleanUp(comments, key) ==
    IF Len(comments[key]) = 0 THEN DictDel(comments, key) ELSE comments

DeleteComment_ClearList(comments, cr) ==
    IF cr[2] = None
    THEN IF cr[1] \in DOMAIN comments
         THEN [outcome |-> "ok", comments |-> [comments EXCEPT ![cr[1]] = <<>>]]
         ELSE [outcome |-> "NotFoundError", comments |-> comments]
    ELSE IF cr[1] \notin DOMAIN comments
    THEN [outcome |-> "NotFoundError", comments |-> comments]
    ELSE IF ~Contains(comments[cr[1]], cr[2][2])
    THEN [outcome |-> "NotFoundError", comments |-> comments]
    ELSE [outcome |-> "ok",
          comments |-> CleanUp([comments EXCEPT ![cr[1]] = ListRemove(@, cr[2][2])],
                               cr[1])]

\* the try block of DeleteCommentModifier.modify on the copied mapping, for a
\* two-element comment_range; KeyError (del or lookup of a missing key) and
\* ValueError (list.remove of a missing text) become NotFoundError
DeleteComment(comments, cr) ==
    IF cr[2] = None
    THEN IF cr[1] \in DOMAIN comments
         THEN [outcome |-> "ok", comments |-> DictDel(comments, cr[1])]
         ELSE [outcome |-> "NotFoundError", comments |-> comments]
    ELSE IF cr[1] \notin DOMAIN comments
    THEN [outcome |-> "NotFoundError", comments |-> comments]
    ELSE IF ~Contains(comments[cr[1]], cr[2][2])
    THEN [outcome |-> "NotFoundError", comments |-> comments]
    ELSE [outcome |-> "ok",
          comments |-> CleanUp([comments EXCEPT ![cr[1]] = ListRemove(@, cr[2][2])],
                               cr[1])]

DeleteResult_DropEmpty(old, cr) ==
    LET res == DeleteComment(GetComments(old), PadConfig(cr))
    IN IF res.outcome = "ok"
       THEN [outcome |-> "ok",
             attrs |-> IF DOMAIN res.comments = {} THEN NoAttributes
                       ELSE CommentsAttributes(res.comments)]
       ELSE [outcome |-> res.outcome, attrs |-> old]

DeleteResult_AlwaysWrite(old, cr) ==
    LET res == DeleteComment(GetComments(old), PadConfig(cr))
    IN [outcome |-> res.outcome, attrs |-> CommentsAttributes(res.comments)]

\* DeleteCommentModifier.modify: the outcome and the attribute slot afterwards
DeleteResult(old, cr) ==
    LET res == DeleteComment(GetComments(old), PadConfig(cr))
    IN IF res.outcome = "ok"
       THEN [outcome |-> "ok", attrs |-> CommentsAttributes(res.comments)]
       ELSE [outcome |-> res.outcome, attrs |-> old]

(***************************************************************************)
(* Spec: the comment modifiers run on one resource                         *)
(***************************************************************************)
\* history of the run of successful Adds: the key, its list before the run, the texts added
NoRun == [active |-> FALSE, key |-> None, base |-> <<>>, texts |-> <<>>]

\* history of the last modifier run: which one, whether a text was given, the
\* outcome, how many comments the addressed key held before it ran, whether the
\* resource had a CommentsAttributes before it ran, and whether it was a Delete
\* of the (range, text) that the run before it had added as a new text to a
\* resource that had a CommentsAttributes
NoOp == [kind |-> "none", textGiven |-> FALSE, outcome |-> "ok", held |-> 0,
         had |-> FALSE, undo |-> FALSE]

\* the list under key, [] when the key is absent
ListOf(comments, key) == IF key \in DOMAIN comments THEN comments[key] ELSE <<>>

CommentsInit ==
    /\ attrs = NoAttributes
    /\ last = NoOp
    /\ run = NoRun

\* resource.run(AddCommentModifier, AddCommentModifierConfig((key, text)))
AddModify(key, text) ==
    /\ TotalComments(GetComments(attrs)) < MaxComments
    /\ LET res == AddResult(attrs, key, text)
           old == GetComments(attrs)
       IN /\ attrs' = res.attrs
          /\ last' = [kind |-> "Add", textGiven |-> TRUE, outcome |-> res.outcome,
                      held |-> Len(ListOf(old, key)),
                      had |-> attrs.present, undo |-> FALSE]
          /\ run' = IF res.outcome # "ok" THEN run
                    ELSE IF run.active /\ run.key = key
                    THEN [run EXCEPT !.texts = Append(@, text)]
                    ELSE [active |-> TRUE, key |-> key, base |-> ListOf(old, key),
                          texts |-> <<text>>]
    /\ UNCHANGED <<configVars, analyzeVars, sampleVars, unpackVars>>

\* resource.run(DeleteCommentModifier, config), config.comment_range = cr
DeleteModify(cr) ==
    /\ LET res == DeleteResult(attrs, cr)
           padded == PadConfig(cr)
       IN /\ attrs' = res.attrs
          /\ last' = [kind |-> "Delete", textGiven |-> padded[2] # None,
                      outcome |-> res.outcome,
                      held |-> Len(ListOf(GetComments(attrs), padded[1])),
                      had |-> attrs.present,
                      undo |-> /\ last.kind = "Add" /\ last.outcome = "ok" /\ last.had
                               /\ run.active /\ run.key = padded[1]
                               /\ padded[2] = Str(run.texts[Len(run.texts)])
                               /\ ~Contains(run.base \o SubSeq(run.texts, 1, Len(run.texts) - 1),
                                            run.texts[Len(run.texts)])]
          /\ run' = IF res.outcome = "ok" THEN NoRun ELSE run
    /\ UNCHANGED <<configVars, analyzeVars, sampleVars, unpackVars>>

(***************************************************************************)
(* SpecConfig: DeleteCommentModifierConfig construction                    *)
(***************************************************************************)
ConfigInit ==
    /\ raw = None
    /\ config = <<None, None>>
    /\ cfgPc = "new"

\* DeleteCommentModifierConfig(comment_range=r)
Construct(r) ==
    /\ raw' = r
    /\ config' = PostInit(r)
    /\ cfgPc' = "constructed"
    /\ UNCHANGED <<commentVars, analyzeVars, sampleVars, unpackVars>>

(***************************************************************************)
(* entropy.py: DataSummaryAnalyzer.analyze                                 *)
(***************************************************************************)
\* self.max_analysis_retries
max_analysis_retries == 10

DepthExceeded_AtCeiling(d) == d >= max_analysis_retries

DepthExceeded_OneLate(d) == d > max_analysis_retries + 1

\* if depth > self.max_analysis_retries: raise RuntimeError
DepthExceeded(d) == d > max_analysis_retries

AnalyzeInit ==
    /\ apc = "idle"
    /\ depth = 0
    /\ pool = "ok"
    /\ entropy = "none"
    /\ magnitude = "none"
    /\ crashes = 0
    /\ replaced = 0
    /\ submitted = 0

\* a caller awaits analyzer.analyze(resource): depth defaults to 0
Analyze ==
    /\ apc \in {"idle", "returned", "aborted"}
    /\ apc' = "check_depth"
    /\ depth' = 0
    /\ entropy' = "none"
    /\ magnitude' = "none"
    /\ crashes' = 0
    /\ replaced' = 0
    /\ submitted' = 0
    /\ UNCHANGED pool
    /\ UNCHANGED <<commentVars, configVars, sampleVars, unpackVars>>

\* the head of an analyze frame: the depth check, then await resource.get_data()
CheckDepth ==
    /\ apc = "check_depth"
    /\ IF DepthExceeded(depth)
       THEN apc' = "aborted"
       ELSE apc' = "get_data"
    /\ UNCHANGED <<depth, pool, entropy, magnitude, crashes, replaced, submitted>>
    /\ UNCHANGED <<commentVars, configVars, sampleVars, unpackVars>>

SubmitEntropy_Both ==
    /\ apc = "get_data"
    /\ apc' = "await_entropy"
    /\ entropy' = "running"
    /\ magnitude' = "running"
    /\ submitted' = submitted + 2
    /\ UNCHANGED <<depth, pool, crashes, replaced>>
    /\ UNCHANGED <<commentVars, configVars, sampleVars, unpackVars>>

\* get_data returns; run_in_executor(self.pool, sample_entropy, ...) is awaited
SubmitEntropy ==
    /\ apc = "get_data"
    /\ apc' = "await_entropy"
    /\ entropy' = "running"
    /\ magnitude' = "none"
    /\ submitted' = submitted + 1
    /\ UNCHANGED <<depth, pool, crashes, replaced>>
    /\ UNCHANGED <<commentVars, configVars, sampleVars, unpackVars>>

\* sample_entropy returns; run_in_executor(self.pool, sample_magnitude, ...) is awaited
EntropyDone ==
    /\ apc = "await_entropy"
    /\ entropy' = "done"
    /\ magnitude' = "running"
    /\ apc' = "await_magnitude"
    /\ submitted' = submitted + 1
    /\ UNCHANGED <<depth, pool, crashes, replaced>>
    /\ UNCHANGED <<commentVars, configVars, sampleVars, unpackVars>>

\* a worker dies while sample_entropy runs: the future raises BrokenProcessPool
EntropyCrash ==
    /\ apc = "await_entropy"
    /\ entropy' = "crashed"
    /\ pool' = "broken"
    /\ crashes' = crashes + 1
    /\ apc' = "broken_pool"
    /\ UNCHANGED <<depth, magnitude, replaced, submitted>>
    /\ UNCHANGED <<commentVars, configVars, sampleVars, unpackVars>>

\* sample_magnitude returns: return DataSummary(entropy, magnitude)
MagnitudeDone ==
    /\ apc = "await_magnitude"
    /\ magnitude' = "done"
    /\ apc' = "returned"
    /\ UNCHANGED <<depth, pool, entropy, crashes, replaced, submitted>>
    /\ UNCHANGED <<commentVars, configVars, sampleVars, unpackVars>>

\* a worker dies while sample_magnitude runs: the future raises BrokenProcessPool
MagnitudeCrash ==
    /\ apc = "await_magnitude"
    /\ magnitude' = "crashed"
    /\ pool' = "broken"
    /\ crashes' = crashes + 1
    /\ apc' = "broken_pool"
    /\ UNCHANGED <<depth, entropy, replaced, submitted>>
    /\ UNCHANGED <<commentVars, configVars, sampleVars, unpackVars>>

ReplacePoolAndRetry_SameDepth ==
    /\ apc = "broken_pool"
    /\ pool' = "ok"
    /\ replaced' = replaced + 1
    /\ depth' = depth
    /\ apc' = "check_depth"
    /\ UNCHANGED <<entropy, magnitude, crashes, submitted>>
    /\ UNCHANGED <<commentVars, configVars, sampleVars, unpackVars>>

\* except BrokenProcessPool: self.pool = ProcessPoolExecutor();
\* return await self.analyze(resource, config=config, depth=depth + 1)
ReplacePoolAndRetry ==
    /\ apc = "broken_pool"
    /\ pool' = "ok"
    /\ replaced' = replaced + 1
    /\ depth' = depth + 1
    /\ apc' = "check_depth"
    /\ UNCHANGED <<entropy, magnitude, crashes, submitted>>
    /\ UNCHANGED <<commentVars, configVars, sampleVars, unpackVars>>

(***************************************************************************)
(* entropy.py: sample_entropy (its downsampling step) and sample_magnitude *)
(***************************************************************************)
\* max_samples, a power of two as in the program
max_samples == 2 ^ SamplesLog2

ByteValues == {0, 255}
\* the byte sequences handed to the sampling functions
ByteSeqs == UNION {[1..n -> ByteValues] : n \in 0..(max_samples + ExtraLen)}

SkipIndex_IntegerSkip(i, n) == i * (n \div max_samples)

\* math.floor(i * skip) with skip = n / max_samples: the quotient by a power of
\* two and its product with i < max_samples are exact in floating point
SkipIndex(i, n) == (i * n) \div max_samples

\* bytes(seq[math.floor(i * skip)] for i in range(max_samples)), 0-based indices
Decimate(seq) == [i \in 1..max_samples |-> seq[SkipIndex(i - 1, Len(seq)) + 1]]

\* sample_magnitude(data)
SampleMagnitude(data) ==
    IF Len(data) < max_samples THEN data ELSE Decimate(data)

\* the end of sample_entropy, from the per-window entropy sequence `result`
\* that the entropy backend returned
DownsampleEntropy(result) ==
    IF Len(result) <= max_samples THEN result ELSE Decimate(result)

SampleInit ==
    /\ sfn = "none"
    /\ sdata = <<>>
    /\ sresult = <<>>

\* the callers' inputs: any byte sequence up to the length bound
SampleInputs ==
    /\ sfn = "none"
    /\ sdata \in ByteSeqs
    /\ sresult = <<>>

\* sample_magnitude(sdata) is called
CallSampleMagnitude ==
    /\ sfn' = "sample_magnitude"
    /\ sresult' = SampleMagnitude(sdata)
    /\ UNCHANGED <<sdata, commentVars, configVars, analyzeVars, unpackVars>>

\* sample_entropy has obtained sdata from the backend and downsamples it
CallSampleEntropy ==
    /\ sfn' = "sample_entropy"
    /\ sresult' = DownsampleEntropy(sdata)
    /\ UNCHANGED <<sdata, commentVars, configVars, analyzeVars, unpackVars>>

(***************************************************************************)
(* uefi.py: UefiUnpacker.unpack                                            *)
(***************************************************************************)
\* unpack calls; call c's TemporaryDirectory is directory c
Calls == 1..NumCalls
ROM_FILE == "uefi.rom"
cmd == <<"uefiextract", ROM_FILE>>
\* exit codes of the tool: success, failure, killed by a signal
ExitCodes == {0, 1, 0 - 9}
CalledProcessError(returncode, command) == <<"CalledProcessError", returncode, command>>
\* an exception raised by a platform call (flush, view_as, initialize_from_disk)
PlatformError(step) == <<"Exception", step>>

\* whether the platform's flush_data_to_disk opens the relative path before
\* it first suspends or after it has resumed
FlushWritesAt == {"call", "resume"}

NoDir == [exists |-> FALSE, rom |-> 0, dump |-> 0]
NewDir == [exists |-> TRUE, rom |-> 0, dump |-> 0]
NoCall == [pc |-> "idle", tool |-> "none", returncode |-> 0, err |-> None,
           romDir |-> 0, toolDir |-> 0, viewed |-> FALSE, children |-> 0,
           dirAtImport |-> FALSE]

ExitFails_PositiveOnly(code) == code > 0

\* `if proc.returncode:`
ExitFails(code) == code # 0

Cleanup_Keep(t, c) == t

\* leaving `with tempfile.TemporaryDirectory()`: the directory and all it holds go
Cleanup(t, c) == [t EXCEPT ![c] = NoDir]

UnpackInit ==
    /\ ucall = [c \in Calls |-> NoCall]
    /\ cwd = 0
    /\ tmp = [d \in Calls |-> NoDir]

\* the call leaves the with block through an exception
Raise(c, e) ==
    /\ ucall' = [ucall EXCEPT ![c].pc = "failed", ![c].err = e]
    /\ tmp' = Cleanup(tmp, c)
    /\ UNCHANGED cwd

\* unpack is called: the directory is created, the process changes into it and
\* flush_data_to_disk(ROM_FILE) is awaited
EnterTempDir(c, w) ==
    /\ ucall[c].pc = "idle"
    /\ cwd' = c
    /\ IF w = "call"
         THEN /\ tmp' = [tmp EXCEPT ![c] = [NewDir EXCEPT !.rom = c]]
              /\ ucall' = [ucall EXCEPT ![c].pc = "flush", ![c].romDir = c]
         ELSE /\ tmp' = [tmp EXCEPT ![c] = NewDir]
              /\ ucall' = [ucall EXCEPT ![c].pc = "flush"]
    /\ UNCHANGED <<commentVars, configVars, analyzeVars, sampleVars>>

\* flush_data_to_disk resumes, writes ROM_FILE relative to the current directory
\* unless it already has, and returns; the subprocess is created without a cwd
\* argument and inherits the current directory
FlushReturns(c) ==
    /\ ucall[c].pc = "flush"
    /\ IF ucall[c].romDir = 0 /\ ~tmp[cwd].exists
         THEN Raise(c, PlatformError("flush"))
         ELSE /\ tmp' = IF ucall[c].romDir = 0
                          THEN [tmp EXCEPT ![cwd].rom = c]
                          ELSE tmp
              /\ ucall' = [ucall EXCEPT ![c].pc = "await_spawn",
                                        ![c].romDir = IF @ = 0 THEN cwd ELSE @,
                                        ![c].toolDir = cwd,
                                        ![c].tool = "running"]
              /\ UNCHANGED cwd
    /\ UNCHANGED <<commentVars, configVars, analyzeVars, sampleVars>>

\* create_subprocess_exec returns the process; proc.wait() is awaited
SpawnReturns(c) ==
    /\ ucall[c].pc = "await_spawn"
    /\ ucall' = [ucall EXCEPT ![c].pc = "await_wait"]
    /\ UNCHANGED <<cwd, tmp>>
    /\ UNCHANGED <<commentVars, configVars, analyzeVars, sampleVars>>

\* the tool exits; it succeeds only on a ROM file in its directory, and then
\* leaves the dump of that file next to it
ToolExit(c, code) ==
    /\ ucall[c].tool = "running"
    /\ code = 0 => tmp[ucall[c].toolDir].exists /\ tmp[ucall[c].toolDir].rom # 0
    /\ ucall' = [ucall EXCEPT ![c].tool = "exited", ![c].returncode = code]
    /\ tmp' = IF code = 0
                THEN [tmp EXCEPT ![ucall[c].toolDir].dump = tmp[ucall[c].toolDir].rom]
                ELSE tmp
    /\ UNCHANGED cwd
    /\ UNCHANGED <<commentVars, configVars, analyzeVars, sampleVars>>

\* proc.wait() returns the exit code
WaitReturns(c) ==
    /\ ucall[c].pc = "await_wait"
    /\ ucall[c].tool = "exited"
    /\ IF ExitFails(ucall[c].returncode)
         THEN Raise(c, CalledProcessError(ucall[c].returncode, cmd))
         ELSE /\ ucall' = [ucall EXCEPT ![c].pc = "view", ![c].viewed = TRUE]
              /\ UNCHANGED <<cwd, tmp>>
    /\ UNCHANGED <<commentVars, configVars, analyzeVars, sampleVars>>

\* view_as(Uefi) returns; initialize_from_disk(temp_flush_dir/uefi.rom.dump) is awaited
ViewReturns(c) ==
    /\ ucall[c].pc = "view"
    /\ ucall' = [ucall EXCEPT ![c].pc = "import"]
    /\ UNCHANGED <<cwd, tmp>>
    /\ UNCHANGED <<commentVars, configVars, analyzeVars, sampleVars>>

\* initialize_from_disk returns: the dump in the call's own directory has become
\* the resource's children, and the with block ends
ImportReturns(c) ==
    /\ ucall[c].pc = "import"
    /\ IF tmp[c].dump = 0
         THEN Raise(c, PlatformError("import"))
         ELSE /\ ucall' = [ucall EXCEPT ![c].pc = "done",
                                        ![c].children = tmp[c].dump,
                                        ![c].dirAtImport = tmp[c].exists]
              /\ tmp' = Cleanup(tmp, c)
              /\ UNCHANGED cwd
    /\ UNCHANGED <<commentVars, configVars, analyzeVars, sampleVars>>

\* the platform call the coroutine is waiting for raises
PlatformFails(c) ==
    /\ ucall[c].pc \in {"flush", "view", "import"}
    /\ Raise(c, PlatformError(ucall[c].pc))
    /\ UNCHANGED <<commentVars, configVars, analyzeVars, sampleVars>>

(***************************************************************************)
(* Specifications                                                          *)
(***************************************************************************)
Init == CommentsInit /\ ConfigInit /\ AnalyzeInit /\ SampleInit /\ UnpackInit

Next ==
    \/ \E key \in OptRanges, text \in Texts : AddModify(key, text)
    \/ \E cr \in DeleteConfigs : DeleteModify(cr)

Spec == Init /\ [][Next]_vars

NextConfig == \E r \in RawInputs : Construct(r)

SpecConfig == Init /\ [][NextConfig]_vars

NextAnalyze ==
    \/ Analyze
    \/ CheckDepth
    \/ SubmitEntropy
    \/ EntropyDone
    \/ EntropyCrash
    \/ MagnitudeDone
    \/ MagnitudeCrash
    \/ ReplacePoolAndRetry

SpecAnalyze == Init /\ [][NextAnalyze]_vars

InitSample == CommentsInit /\ ConfigInit /\ AnalyzeInit /\ SampleInputs /\ UnpackInit

NextSample ==
    \/ CallSampleMagnitude
    \/ CallSampleEntropy

SpecSample == InitSample /\ [][NextSample]_vars

NextUnpack ==
    \/ \E c \in Calls, w \in FlushWritesAt : EnterTempDir(c, w)
    \/ \E c \in Calls : FlushReturns(c)
    \/ \E c \in Calls : SpawnReturns(c)
    \/ \E c \in Calls, code \in ExitCodes : ToolExit(c, code)
    \/ \E c \in Calls : WaitReturns(c)
    \/ \E c \in Calls : ViewReturns(c)
    \/ \E c \in Calls : ImportReturns(c)
    \/ \E c \in Calls : PlatformFails(c)

SpecUnpack == Init /\ [][NextUnpack]_vars

\* analyze under the scheduling the event loop and the executor give it: a
\* coroutine that can resume does resume, and every submitted computation
\* eventually completes or breaks the pool
SpecAnalyzeFair ==
    /\ Init
    /\ [][NextAnalyze]_vars
    /\ WF_vars(CheckDepth)
    /\ WF_vars(SubmitEntropy)
    /\ WF_vars(EntropyDone \/ EntropyCrash)
    /\ WF_vars(MagnitudeDone \/ MagnitudeCrash)
    /\ WF_vars(ReplacePoolAndRetry)

(***************************************************************************)
(* Properties of the comment modifiers (Spec)                              *)
(***************************************************************************)
\* the list without its i-th element
RemoveAt(list, i) == SubSeq(list, 1, i - 1) \o SubSeq(list, i + 1, Len(list))

\* the (range, text) pair names no stored comment: the range key is absent,
\* or a text is given and is not in the key's list
MissingComment(comments, cr) ==
    \/ cr[1] \notin DOMAIN comments
    \/ (cr[2] # None /\ \A i \in 1..Len(comments[cr[1]]) : comments[cr[1]][i] # cr[2][2])

\* a given range with start < 0 or end > length of the data
OutOfBounds(key) == key # None /\ (key[2] < 0 \/ key[3] > DataLen)

\* C1: after any sequence of Add and Delete runs, successful or failing, every
\* range key present in the stored mapping, the absent-range key included, maps
\* to a non-empty list of comments.
C1_NoEmptyLists ==
    \A k \in DOMAIN attrs.comments : Len(attrs.comments[k]) > 0

\* a Delete by text has just removed the only comment of its key
C1_Witness ==
    /\ last.kind = "Delete" /\ last.outcome = "ok"
    /\ last.textGiven /\ last.held = 1
    /\ attrs.present

\* C2: a Delete whose range key is not in the mapping, or whose text is given
\* and is not in that key's list, fails with NotFoundError and writes nothing:
\* the attribute slot (a value, or none) is the same after the run as before.
\* Stated of every Delete that can be run in a reachable state.
C2_FailedDeleteWritesNothing ==
    \A cr \in DeleteConfigs :
        MissingComment(GetComments(attrs), PadConfig(cr))
            => DeleteResult(attrs, cr) = [outcome |-> "NotFoundError", attrs |-> attrs]

\* a Delete by text has failed on a key that holds other comments
C2_Witness ==
    /\ last.kind = "Delete" /\ last.outcome = "NotFoundError"
    /\ last.textGiven /\ last.held > 0
    /\ attrs.present

\* C3: an Add whose range is given and has start < 0 or end > len(data) fails
\* with ValueError and writes nothing; an Add with no range is never rejected.
\* Stated of every Add that can be run in a reachable state.
C3_OutOfBoundsAddRejected ==
    \A key \in OptRanges, text \in Texts :
        /\ OutOfBounds(key)
               => AddResult(attrs, key, text) = [outcome |-> "ValueError", attrs |-> attrs]
        /\ key = None => AddResult(attrs, key, text).outcome = "ok"

\* an Add has been rejected on a resource that already carries comments
C3_Witness ==
    /\ last.kind = "Add" /\ last.outcome = "ValueError"
    /\ attrs.present /\ DOMAIN attrs.comments # {}

\* C4: every range key stored in the mapping lies within the resource's data:
\* both its start and its end are in 0..len(data).
C4_KeysWithinData ==
    \A k \in DOMAIN attrs.comments :
        k # None => /\ 0 <= RangeStart(k) /\ RangeStart(k) <= DataLen
                    /\ 0 <= RangeEnd(k) /\ RangeEnd(k) <= DataLen

\* C5: a successful Delete of (range, text) removes one occurrence of the text
\* from the key's list and keeps every other comment in its previous order;
\* when it was the key's last string the key is absent afterwards; no other
\* key changes. Stated of every Delete that can be run in a reachable state.
C5_DeleteByTextRemovesOne ==
    \A cr \in DeleteConfigs :
        LET res == DeleteResult(attrs, cr)
            key == PadConfig(cr)[1]
            text == PadConfig(cr)[2]
            old == attrs.comments
            new == res.attrs.comments
        IN (res.outcome = "ok" /\ text # None)
               => /\ attrs.present /\ res.attrs.present
                  /\ key \in DOMAIN old
                  /\ \E i \in 1..Len(old[key]) :
                         old[key][i] = text[2] /\ ListOf(new, key) = RemoveAt(old[key], i)
                  /\ key \in DOMAIN new <=> Len(old[key]) > 1
                  /\ DOMAIN new \ {key} = DOMAIN old \ {key}
                  /\ \A k \in DOMAIN old \ {key} : new[k] = old[k]

\* a Delete by text has removed one of two comments of its key
C5_Witness ==
    /\ last.kind = "Delete" /\ last.outcome = "ok"
    /\ last.textGiven /\ last.held = 2
    /\ \E k \in DOMAIN attrs.comments : Len(attrs.comments[k]) = 1

\* C6: a successful Delete with no text removes every comment under the range
\* key in one run: the key was present and is absent afterwards, however many
\* comments it held. Stated of every Delete that can be run in a reachable state.
C6_DeleteRangeRemovesKey ==
    \A cr \in DeleteConfigs :
        LET res == DeleteResult(attrs, cr)
            key == PadConfig(cr)[1]
        IN (res.outcome = "ok" /\ PadConfig(cr)[2] = None)
               => /\ key \in DOMAIN attrs.comments
                  /\ res.attrs.present
                  /\ key \notin DOMAIN res.attrs.comments

\* a Delete with no text has removed a key that held several comments
C6_Witness ==
    /\ last.kind = "Delete" /\ last.outcome = "ok"
    /\ ~last.textGiven /\ last.held >= 2

\* C7: a successful Add of (range, text) appends the text at the end of the
\* key's list, creating the key when absent, also on a resource without
\* CommentsAttributes; so during a run of successful Adds under one key the list
\* is what it was before the run followed by the added texts in insertion order.
C7_AddAppends ==
    /\ \A key \in OptRanges, text \in Texts :
           LET res == AddResult(attrs, key, text)
           IN res.outcome = "ok"
                  => /\ res.attrs.present
                     /\ key \in DOMAIN res.attrs.comments
                     /\ res.attrs.comments[key]
                            = Append(ListOf(GetComments(attrs), key), text)
    /\ run.active
           => /\ run.key \in DOMAIN attrs.comments
              /\ attrs.comments[run.key] = run.base \o run.texts

\* two Adds in a row under one key, the second one successful
C7_Witness ==
    /\ last.kind = "Add" /\ last.outcome = "ok"
    /\ run.active /\ Len(run.texts) = 2
    /\ attrs.comments[run.key] = run.texts

(***************************************************************************)
(* Properties of DeleteCommentModifierConfig (SpecConfig)                  *)
(***************************************************************************)
\* C8: right after construction comment_range is a two-element tuple, for
\* every input.
C8_TwoElementTuple ==
    cfgPc = "constructed" => Len(config) = 2

(***************************************************************************)
(* Properties of DataSummaryAnalyzer.analyze (SpecAnalyze)                 *)
(***************************************************************************)
\* positions in which analyze makes no further attempt
NoAttempt == {"broken_pool", "check_depth", "aborted"}

\* C9 as stated: once 10 attempts of one analysis have crashed the pool, no
\* further computation is submitted and the analysis fails.
C9_StopsAfterTenCrashes ==
    crashes >= max_analysis_retries => apc \in NoAttempt

\* C9 amended: once 11 attempts of one analysis (the first and 10 retries) have
\* crashed the pool, no further computation is submitted and the analysis
\* fails; there is no 12th attempt.
C9_StopsAfterElevenCrashes ==
    /\ crashes <= max_analysis_retries + 1
    /\ submitted <= 2 * (max_analysis_retries + 1)
    /\ crashes >= max_analysis_retries + 1 => apc \in NoAttempt

\* the analysis has failed after its 11th crash
C9_Witness ==
    apc = "aborted" /\ crashes = max_analysis_retries + 1

\* C10: an analysis started at depth 0 ends in the fatal error exactly when
\* its pool was replaced more than 10 times; with at most 10 crashed attempts
\* followed by one that does not crash it returns a DataSummary.
C10_AbortedIffOverCeiling ==
    /\ apc = "aborted" => (replaced > max_analysis_retries /\ crashes > max_analysis_retries)
    /\ apc = "returned" => (replaced <= max_analysis_retries /\ crashes <= max_analysis_retries
                            /\ entropy = "done" /\ magnitude = "done")
    /\ replaced > max_analysis_retries => apc \in {"check_depth", "aborted"}

\* the analysis has returned a DataSummary after 10 crashed attempts
C10_Witness ==
    apc = "returned" /\ crashes = max_analysis_retries /\ replaced = max_analysis_retries

\* C11: within one analysis every detected pool crash, in the entropy or in the
\* magnitude computation, causes exactly one pool replacement and one retry
\* with depth + 1: the replacements made equal the current depth and the
\* crashes the coroutine has observed (a crash is observed when the coroutine
\* resumes in its except clause, which is when it leaves "broken_pool").
C11_OneReplacementPerCrash ==
    /\ replaced = depth
    /\ apc # "broken_pool" => crashes = replaced
    /\ apc = "broken_pool" => crashes = replaced + 1

\* a retry has started after a crash of the magnitude computation
C11_Witness ==
    /\ apc = "check_depth" /\ magnitude = "crashed"
    /\ depth = 2 /\ replaced = 2 /\ crashes = 2

\* C12 as stated: the two computations run concurrently, the magnitude
\* computation is not held back until the entropy computation has finished:
\* while the entropy job is in flight the magnitude job has been submitted too.
C12_SubmittedTogether ==
    entropy = "running" => magnitude # "none"

\* C12 amended: within one attempt the magnitude computation is submitted only
\* after the entropy computation has completed; the two are never in flight
\* together.
C12_MagnitudeAfterEntropy ==
    /\ ~(entropy = "running" /\ magnitude = "running")
    /\ magnitude = "running" => entropy = "done"
    /\ entropy = "running" => magnitude = "none"

\* the magnitude job is in flight, the entropy job has completed
C12_Witness ==
    apc = "await_magnitude" /\ magnitude = "running" /\ entropy = "done"

\* an analyze call is in progress
Analyzing == apc \notin {"idle", "returned", "aborted"}

SameEntry(before, after, k) ==
    /\ k \in DOMAIN before <=> k \in DOMAIN after
    /\ k \in DOMAIN before => before[k] = after[k]

C19_AddThenDeleteRestores ==
    \A key \in OptRanges, text \in Texts :
        LET added == AddResult(attrs, key, text)
        IN (/\ attrs.present
            /\ added.outcome = "ok"
            /\ ~Contains(ListOf(attrs.comments, key), text))
               => DeleteResult(added.attrs, <<key, Str(text)>>)
                      = [outcome |-> "ok", attrs |-> attrs]

\* such a Delete has run and left a mapping that still holds a comment
C19_Witness ==
    /\ last.kind = "Delete" /\ last.outcome = "ok" /\ last.undo
    /\ attrs.present /\ DOMAIN attrs.comments # {}

\* C20: a resource that has a CommentsAttributes keeps one through every Add and
\* Delete: a successful Delete that removes the last comment writes a
\* CommentsAttributes with an empty mapping; and a Delete on a resource without
\* one fails with NotFoundError and creates none.
C20_AttributesNeverRemoved ==
    /\ (last.kind # "none" /\ last.had) => attrs.present
    /\ \A key \in OptRanges, text \in Texts :
           attrs.present => AddResult(attrs, key, text).attrs.present
    /\ \A cr \in DeleteConfigs :
           LET res == DeleteResult(attrs, cr)
           IN /\ attrs.present => res.attrs.present
              /\ (res.outcome = "ok" /\ TotalComments(GetComments(res.attrs)) = 0)
                    => res.attrs = CommentsAttributes(EmptyMap)
              /\ ~attrs.present => res = [outcome |-> "NotFoundError", attrs |-> NoAttributes]

\* a Delete by text has removed the only comment of the resource
C20_Witness ==
    /\ last.kind = "Delete" /\ last.outcome = "ok" /\ last.textGiven
    /\ last.had /\ last.held = 1
    /\ attrs = CommentsAttributes(EmptyMap)

(***************************************************************************)
(* Properties of the sampling functions (SpecSample)                       *)
(***************************************************************************)
\* the sequence C13 describes for an input of length N and M = max_samples
NearestLower(seq) ==
    IF Len(seq) <= max_samples THEN seq
    ELSE [i \in 1..max_samples |-> seq[((i - 1) * Len(seq)) \div max_samples + 1]]

\* C13: sample_magnitude on the raw data and the downsampling step of
\* sample_entropy on the per-window entropy sequence return the whole sequence
\* when N <= M (N = M included), and otherwise exactly M samples, the one at
\* position i being the input element at index floor(i * N / M).
C13_EvenlySpacedSamples ==
    sfn # "none"
        => /\ sresult = NearestLower(sdata)
           /\ Len(sdata) <= max_samples => sresult = sdata
           /\ Len(sdata) > max_samples => Len(sresult) = max_samples

\* sample_magnitude has decimated an input more than twice as long as max_samples
C13_Witness ==
    /\ sfn = "sample_magnitude"
    /\ Len(sdata) > 2 * max_samples
    /\ Len(sresult) = max_samples
    /\ sresult # SubSeq(sdata, 1, max_samples)

(***************************************************************************)
(* Properties of UefiUnpacker.unpack (SpecUnpack)                          *)
(***************************************************************************)
\* C14: when the tool exits with a non-zero code, unpack fails with a
\* CalledProcessError carrying that code and the command line; view_as and the
\* import are never reached and the resource gets no children.
C14_NonZeroExitFails ==
    \A c \in Calls :
        (ucall[c].tool = "exited" /\ ucall[c].returncode # 0)
            => /\ ucall[c].pc \in {"await_spawn", "await_wait", "failed"}
               /\ ucall[c].pc = "failed"
                    => ucall[c].err = CalledProcessError(ucall[c].returncode, cmd)
               /\ ~ucall[c].viewed
               /\ ucall[c].children = 0

\* a call has failed on a tool killed by a signal
C14_Witness ==
    \E c \in Calls :
        /\ ucall[c].pc = "failed"
        /\ ucall[c].returncode < 0
        /\ ucall[c].err = CalledProcessError(0 - 9, cmd)

\* C15: once unpack has returned or failed after creating its temporary
\* directory, the directory and its contents are gone, whichever way it left;
\* and a successful import read the dump while the directory still existed.
C15_TempDirDiscarded ==
    \A c \in Calls :
        /\ ucall[c].pc \in {"done", "failed"} => tmp[c] = NoDir
        /\ ucall[c].pc = "done" => ucall[c].dirAtImport /\ ucall[c].children # 0

\* one call has returned with children, another has failed, both after the tool ran
C15_Witness ==
    \E c, d \in Calls :
        /\ ucall[c].pc = "done" /\ ucall[c].children # 0
        /\ ucall[d].pc = "failed" /\ ucall[d].tool = "exited"
        /\ tmp[c] = NoDir /\ tmp[d] = NoDir

\* C16: under every interleaving each call's uefi.rom is written in that call's
\* own temporary directory, its tool runs in that directory, and it imports the
\* dump produced from its own ROM file.
C16_OwnDirectory ==
    \A c \in Calls :
        /\ ucall[c].romDir \in {0, c}
        /\ ucall[c].toolDir \in {0, c}
        /\ ucall[c].children \in {0, c}

====
